---------------------------- MODULE Spec2Model ----------------------------
(***************************************************************************)
(* CHRONOS job scheduler: the job store, the atomic claim, the three       *)
(* worker implementations (Scheduler + JobPicker + JobExecutor,            *)
(* WorkerService, WorkerServiceWithRetry + RetryManager), stale-lock       *)
(* recovery, shutdown release and the job API.                             *)
(*                                                                         *)
(* Time is kept relative to the current instant: a timestamp field holds   *)
(* its distance to "now" (nextRunAt: time left until due, <= 0 when due;   *)
(* lockedAt and the handler clock: age).  Tick moves "now" forward by one  *)
(* unit.  Ages saturate one unit above the largest threshold the code      *)
(* compares them with, and overdue times saturate at -MaxOver.             *)
(*                                                                         *)
(* The actions are written once, over any job and any worker.  Next is the *)
(* whole system; the specifications further down run the same actions over *)
(* a part of the jobs and workers, each sized for the properties checked   *)
(* under it.                                                               *)
(***************************************************************************)
EXTENDS Integers, Sequences, FiniteSets, TLC

\* ------------------------------------------------------------------ bounds
\* (times are in model time units)
MaxOver == 1
MaxLogs == 3
MaxCrashes == 1
MaxRetryCount == 2
LockTimeout == 2
DrainTimeout == 1
Concurrency == 1
RetryDelay == 1
MaxRetryDelay == 2
Interval == 1
MaxMaxRetries == 2
\* largest retryCount of a document in the stores the sweep is tried on
MaxStoreRetries == 1
\* successful runs of a cron job that are followed
MaxCronRuns == 3
\* minutes the clock may pass the time a cron job is due
MaxCronWait == 1
\* defaultTTL of the lock manager, in units of time
LockTTL == 1
\* withLock calls of one worker under way at a time
MaxCalls == 1
\* keywords one error message holds at most
MaxKeywords == 2
\* calculateDelay: the largest attempt number, baseDelay and maxDelay
MaxAttempt == 4
MaxBaseDelay == 2
MaxCap == 8
\* store operations that fail, per worker
MaxFaults == 1

\* --------------------------------------------------- program configuration
\* the fallback of "job.maxRetries || 3" in WorkerService.handleJobFailure
DefaultMaxRetries == 3
\* jitterFactor of RetryManager's DEFAULT_CONFIG, in percent
JitterPercent == 20

Workers == {"w1", "w2"}
JobIds == {"A", "B"}
LockIds == {"scheduler:main", "job:A"}
Impls == {"Scheduler", "WorkerService", "WithRetry"}
JobTypes == {"ONE_TIME", "RECURRING"}
Priorities == {1, 2}
\* the values a handler returns
Results == {"ok", "done"}
\* the messages of the errors a handler throws
HandlerErrors == {"boom", "validation", "Request timeout"}
\* the message of the error executeWithTimeout rejects with, and of the one
\* thrown when no handler is registered for the job's taskType
TimeoutMessage == "Job execution timed out"
\* the error of a store operation that rejects (it holds no keyword)
StoreErrorMessage == "Store unavailable"
NoHandlerMessage == "No handler registered for task type"
\* what a handler call can end with: a value or an error
Outcomes == Results \cup HandlerErrors
\* the handlers that succeed or fail with a retryable error
PlainOutcomes == {"ok", "boom"}
\* the handlers that succeed when they return at all
Successes == {"ok"}
\* taskType values: one with a registered handler, one without
TaskTypes == {"email", "unknown"}
Handlers == {"email"}

Null == "null"
\* the null of a Date field (times are integers)
NullTime == 0 - 1000
\* endTime of a request: none, or an offset from "now" up to one unit past
\* the first occurrence after a run
EndTimes == {NullTime} \cup (0 .. Interval + 1)
NoPoll == [left |-> 0 - 1, picked |-> {}]

Statuses ==
    {"PENDING", "SCHEDULED", "QUEUED", "RUNNING", "COMPLETED", "FAILED",
     "PAUSED", "CANCELLED", "WAITING", "BLOCKED"}

VARIABLES
    jobs,        \* the Job collection: JobIds -> document, NoJob before creation
    logs,        \* the JobExecutionLog collection, in insertion order
    execs,       \* per worker: the executions (executeJob calls) in progress
    activeJobs,  \* per worker: the keys of its activeJobs map
    poll,        \* per worker: the poll() call in progress, or NoPoll
    wk,          \* per worker: implementation, isRunning, isPaused, drain state
    crashes,     \* number of worker processes lost so far
    cron,        \* a cron-scheduled job on the wall clock, or NoCron
    lm,          \* the Lock collection and the withLock calls in progress
    overlap,     \* per worker: a poll() call started while "poll" awaits
    calc,        \* the last call of a pure method: its arguments and result
    ev           \* per worker: the last event a listener has received

vars == <<jobs, logs, execs, activeJobs, poll, wk, crashes, cron, lm, overlap,
         calc, ev>>

\* ---------------------------------------------------------------- helpers
Min(a, b) == IF a < b THEN a ELSE b
Max(a, b) == IF a > b THEN a ELSE b

\* ages saturate one unit above the largest threshold they are compared with
MaxAge == LockTimeout + 1

\* a slot of the collection that holds no document yet
NoJob ==
    [status |-> "NONE", nextRunAt |-> NullTime, isActive |-> FALSE,
     lockedBy |-> Null, lockedAt |-> NullTime, retryCount |-> 0, maxRetries |-> 0,
     jobType |-> "ONE_TIME", priority |-> 1, dependsOnJobId |-> Null,
     taskType |-> "email", endTime |-> NullTime, result |-> Null,
     lastError |-> Null, expireAt |-> NullTime]

Exists(j) == jobs[j].status # "NONE"

Pow2(k) == IF k <= 0 THEN 1 ELSE 2 ^ k

\* ------------------------------------------------------------ the job store

\* new Job(data): the document before save, with the schema defaults
NewJob(jobType, status, nextRunAt, maxRetries, priority, dep) ==
    [status |-> status, nextRunAt |-> nextRunAt, isActive |-> TRUE,
     lockedBy |-> Null, lockedAt |-> NullTime, retryCount |-> 0,
     maxRetries |-> maxRetries, jobType |-> jobType, priority |-> priority,
     dependsOnJobId |-> dep, taskType |-> "email", endTime |-> NullTime,
     result |-> Null, lastError |-> Null, expireAt |-> NullTime]

\* jobSchema.pre('save') on a new document that carries no nextRunAt: the
\* hook computes it (scheduleTime of a one-time job, "now" for a recurring
\* one; the model's scheduleTime is "now") and sets status to SCHEDULED,
\* whatever status the document was built with
PreSaveNew(doc) ==
    IF doc.nextRunAt = NullTime
    THEN [doc EXCEPT !.status = "SCHEDULED", !.nextRunAt = 0]
    ELSE doc

\* the $or of the claim filter: no lock, or a lock older than lockTimeout
LockFree(d) ==
    \/ d.lockedBy = Null
    \/ d.lockedAt = NullTime
    \/ d.lockedAt > LockTimeout

\* variants of the claim filter: one that forgets isActive, one whose lock
\* test is the age comparison alone (which a null lockedAt never passes)
MatchesDeleted(d) ==
    /\ d.status = "SCHEDULED"
    /\ d.nextRunAt # NullTime
    /\ d.nextRunAt <= 0
    /\ LockFree(d)

MatchesStaleOnly(d) ==
    /\ d.status = "SCHEDULED"
    /\ d.nextRunAt # NullTime
    /\ d.nextRunAt <= 0
    /\ d.isActive
    /\ d.lockedAt # NullTime
    /\ d.lockedAt > LockTimeout

\* the filter of the atomic claim (findOneAndUpdate in pickOne / pickJobs)
Matches(d) ==
    /\ d.status = "SCHEDULED"
    /\ d.nextRunAt # NullTime
    /\ d.nextRunAt <= 0
    /\ d.isActive
    /\ LockFree(d)

Eligible(j) == Matches(jobs[j])

\* a sort by nextRunAt alone
BeforeByDueTime(a, b) == jobs[a].nextRunAt <= jobs[b].nextRunAt

\* sort: { priority: 1, nextRunAt: 1 }
Before(a, b) ==
    \/ jobs[a].priority < jobs[b].priority
    \/ /\ jobs[a].priority = jobs[b].priority
       /\ jobs[a].nextRunAt <= jobs[b].nextRunAt

\* the document findOneAndUpdate selects: a match no other match precedes
First(j) ==
    /\ Eligible(j)
    /\ \A k \in JobIds : Eligible(k) => Before(j, k)

\* a variant of the claim's update that takes the lock and leaves the status
ClaimedLockOnly(d, w) == [d EXCEPT !.lockedBy = w, !.lockedAt = 0]

\* the update of the claim
Claimed(d, w) == [d EXCEPT !.status = "QUEUED", !.lockedBy = w, !.lockedAt = 0]

\* --------------------------------------------------------- retry decisions
\* message substrings RetryManager.isRetryableError treats as permanent
\* message.toLowerCase().includes(keyword), for the messages of the model
\* and the keywords the code looks for
Includes(msg, keyword) ==
    keyword \in (CASE msg = "validation" -> {"validation"}
                  [] msg = "Request timeout" -> {"timeout"}
                  [] msg = NoHandlerMessage -> {"no handler", "handler"}
                  [] OTHER -> {})

NonRetryable ==
    {"validation", "invalid", "not found", "unauthorized", "forbidden",
     "no handler", "syntax error"}

IsRetryableError(err) == \A keyword \in NonRetryable : ~Includes(err, keyword)

\* classifyError: the first keyword found decides
ClassifyError(msg) ==
    IF Includes(msg, "timeout") THEN "TIMEOUT"
    ELSE IF Includes(msg, "network") \/ Includes(msg, "econnrefused") THEN "NETWORK_ERROR"
    ELSE IF Includes(msg, "validation") THEN "VALIDATION_ERROR"
    ELSE IF Includes(msg, "not found") THEN "NOT_FOUND"
    ELSE IF Includes(msg, "handler") THEN "HANDLER_ERROR"
    ELSE "UNKNOWN_ERROR"

\* job.maxRetries as each implementation reads it
EffMaxRetries(impl, d) ==
    IF impl = "WorkerService" /\ d.maxRetries = 0
    THEN DefaultMaxRetries        \* job.maxRetries || 3
    ELSE d.maxRetries             \* job.maxRetries, job.maxRetries ?? cfg

\* canRetry of handleFailure / handleJobFailure / RetryManager.handleFailure,
\* rc being job.retryCount of the claimed document
CanRetry(impl, d, rc, err) ==
    /\ rc + 1 < EffMaxRetries(impl, d)
    /\ (impl = "WithRetry" => IsRetryableError(err))

\* delay before the retry: retryDelay * 2^retryCount (useExponentialBackoff),
\* RetryManager clamps it to maxDelay; the stored offset saturates there too
BackoffDelay(rc) == Min(RetryDelay * Pow2(rc), MaxRetryDelay)

\* the $set of the failure path, computed from the claimed document
FailureUpdate(impl, d, rc, err) ==
    IF CanRetry(impl, d, rc, err)
    THEN [d EXCEPT !.status = "SCHEDULED", !.retryCount = rc + 1,
                   !.nextRunAt = BackoffDelay(rc), !.lastError = err,
                   !.lockedBy = Null, !.lockedAt = NullTime]
    ELSE [d EXCEPT !.status = "FAILED", !.retryCount = rc + 1,
                   !.lastError = err,
                   !.lockedBy = Null, !.lockedAt = NullTime]

\* calculateNextRun of a job with an interval: now + interval
CalculateNextRun(d) == Interval

\* nextRunAt && (!job.endTime || nextRunAt < job.endTime)
RunsAgain(d, nextRunAt) == d.endTime = NullTime \/ nextRunAt < d.endTime

\* a success path that leaves the error of an earlier attempt in place
SuccessUpdateKeepsError(d, x) ==
    [d EXCEPT !.status = IF d.jobType = "ONE_TIME" THEN "COMPLETED" ELSE "SCHEDULED",
              !.result = x, !.retryCount = 0,
              !.lockedBy = Null, !.lockedAt = NullTime]

\* the $set of the success path (handleCompletion / handleJobSuccess)
SuccessUpdate(d, x) ==
    LET base == [d EXCEPT !.result = x, !.lastError = Null,
                          !.lockedBy = Null, !.lockedAt = NullTime]
    IN  IF d.jobType = "ONE_TIME"
        THEN [base EXCEPT !.status = "COMPLETED", !.retryCount = 0]
        ELSE IF RunsAgain(d, CalculateNextRun(d))
        THEN [base EXCEPT !.status = "SCHEDULED", !.retryCount = 0,
                          !.nextRunAt = CalculateNextRun(d)]
        ELSE [base EXCEPT !.status = "COMPLETED"]

\* status written to the execution log when the attempt ends: complete() and
\* logSuccess write SUCCESS; JobExecutionLog.fail and WorkerServiceWithRetry
\* write FAILED; WorkerService.logFailure tests error.message.includes
\* ('timeout'), case-sensitively: the messages of the model that hold the
\* word hold it in lower case, and TimeoutMessage does not hold it at all
LogStatus(impl, out) ==
    IF out \in Results THEN "SUCCESS"
    ELSE IF impl = "WorkerService" /\ Includes(out, "timeout") THEN "TIMEOUT"
    ELSE "FAILED"

\* ----------------------------------------------------------------- workers
NewWorker(impl) ==
    [impl |-> impl, isRunning |-> FALSE, isPaused |-> FALSE,
     draining |-> FALSE, drainAge |-> 0, awaited |-> {}, dead |-> FALSE]

\* an executeJob call: the claimed document's retryCount, the position in
\* the call, the handler's clock, the index of the log entry it saved
NewExec(j, rc) == [job |-> j, rc |-> rc, pc |-> "queued", age |-> 0, log |-> 0]

\* no cron job is followed: the field "*" of a cron expression, and the
\* record of the job (its executor, its expression, the wall clock, its
\* nextRunAt, the nextRunAt before the last run and the time of that run)
Star == [kind |-> "any", n |-> 0]
NoCron == [impl |-> Null, expr |-> <<Star, Star>>, now |-> 0, nextRunAt |-> 0,
           prev |-> NullTime, done |-> NullTime, runs |-> 0]

\* no Lock document of an id.  A document has its holder and the time left
\* until expiresAt, negative once expiresAt < now
NoLock == [holder |-> Null, left |-> 0 - 1]

\* what the last call of the lock manager returned: the worker, the
\* method, the lock, the boolean (success of withLock), and result and
\* error of withLock
Return(w, op, l, ok, result, error) ==
    [by |-> w, op |-> op, lockId |-> l, ok |-> ok, result |-> result,
     error |-> error]

\* a withLock call that is not under way
NoCall == [lockId |-> Null, pc |-> "idle", out |-> Null]

\* the Lock collection is empty, no worker tracks a lock in activeLocks
\* (the expiresAt it recorded), and no withLock call is under way
NoLocks == [locks |-> [l \in LockIds |-> NoLock],
            activeLocks |-> [w \in Workers |-> [l \in LockIds |-> NullTime]],
            calls |-> [w \in Workers |-> [i \in 1 .. MaxCalls |-> NoCall]],
            ret |-> Return(Null, Null, Null, FALSE, Null, Null)]

\* time passes for the expiresAt of the documents and of activeLocks
AgeLocks(m) ==
    [m EXCEPT
       !.locks = [l \in LockIds |->
                    IF m.locks[l].holder = Null THEN m.locks[l]
                    ELSE [m.locks[l] EXCEPT !.left = Max(@ - 1, 0 - 1)]],
       !.activeLocks = [w \in Workers |-> [l \in LockIds |->
                    IF m.activeLocks[w][l] = NullTime THEN NullTime
                    ELSE Max(m.activeLocks[w][l] - 1, 0 - 1)]]]

\* an empty store and workers that have been constructed
\* no call of a pure method has been made: the method, the implementation
\* it belongs to, the keywords the error message holds and the code
\* returned (classifyError); the strategy, the attempt number, baseDelay,
\* maxDelay, the jitter drawn and the delay returned (calculateDelay)
NoCalc == [fn |-> Null, impl |-> Null, msg |-> {}, code |-> Null,
           strategy |-> Null, k |-> 0, base |-> 0, max |-> 0, jitter |-> 0,
           delay |-> 0]

\* no listener is attached to any worker: what it emits is received by
\* nobody
NoEvents ==
    [w \in Workers |-> [listening |-> FALSE, last |-> Null, job |-> Null,
                        faults |-> 0, escaped |-> FALSE]]

\* emit(name, {jobId}) with no listener does nothing
EmitNothing(e, w, name, j) == e

\* emit(name, {jobId}): the listener of the worker's events receives it
Emit(e, w, name, j) ==
    IF e[w].listening THEN [e EXCEPT ![w].last = name, ![w].job = j] ELSE e

StoreInit(implsOf) ==
    /\ jobs = [j \in JobIds |-> NoJob]
    /\ logs = <<>>
    /\ execs = [w \in Workers |-> {}]
    /\ activeJobs = [w \in Workers |-> {}]
    /\ poll = [w \in Workers |-> NoPoll]
    /\ wk \in [Workers -> {NewWorker(i) : i \in Impls}]
    /\ \A w \in Workers : wk[w].impl \in implsOf[w]
    /\ crashes = 0
    /\ overlap = [w \in Workers |-> NoPoll]
    /\ calc = NoCalc
    /\ ev = NoEvents

InitWith(implsOf) ==
    /\ StoreInit(implsOf)
    /\ cron = NoCron
    /\ lm = NoLocks

Init == InitWith([w \in Workers |-> Impls])

\* ---------------------------------------------------------------- the API
\* createOneTimeJob / createRecurringJob: new Job(data).save().  The document
\* is built PENDING (the schema default), or WAITING when it names a parent;
\* "given" tells whether the request carries nextRunAt or leaves it to the
\* save hook
\* tt is the request's taskType, et its endTime
CreateJobWith(j, jt, mr, pr, given, dep, tt, et) ==
    /\ ~Exists(j)
    /\ dep # j
    /\ dep # Null => Exists(dep)
    /\ LET st == IF dep = Null THEN "PENDING" ELSE "WAITING"
           nr == IF given THEN 0 ELSE NullTime
           data == [NewJob(jt, st, nr, mr, pr, dep) EXCEPT
                      !.taskType = tt, !.endTime = et]
       IN  jobs' = [jobs EXCEPT ![j] = PreSaveNew(data)]
    /\ UNCHANGED <<logs, execs, activeJobs, poll, wk, crashes, cron, lm, overlap, calc, ev>>

\* a request for a task type that has a handler, without endTime
CreateJob(j, jt, mr, pr, given, dep) ==
    CreateJobWith(j, jt, mr, pr, given, dep, "email", NullTime)

\* cancelJob: status in {PENDING, SCHEDULED, QUEUED} => CANCELLED
CancelJob(j) ==
    /\ jobs[j].status \in {"PENDING", "SCHEDULED", "QUEUED"}
    /\ jobs' = [jobs EXCEPT ![j].status = "CANCELLED"]
    /\ UNCHANGED <<logs, execs, activeJobs, poll, wk, crashes, cron, lm, overlap, calc, ev>>

\* pauseJob: status in {PENDING, SCHEDULED} => PAUSED (Job.pause)
PauseJob(j) ==
    /\ jobs[j].status \in {"PENDING", "SCHEDULED"}
    /\ jobs' = [jobs EXCEPT ![j].status = "PAUSED"]
    /\ UNCHANGED <<logs, execs, activeJobs, poll, wk, crashes, cron, lm, overlap, calc, ev>>

\* resumeJob: PAUSED => SCHEDULED (Job.resume)
ResumeJob(j) ==
    /\ jobs[j].status = "PAUSED"
    /\ jobs' = [jobs EXCEPT ![j].status = "SCHEDULED"]
    /\ UNCHANGED <<logs, execs, activeJobs, poll, wk, crashes, cron, lm, overlap, calc, ev>>

\* deleteJob: soft delete
DeleteJob(j) ==
    /\ Exists(j)
    /\ jobs[j].isActive
    /\ jobs' = [jobs EXCEPT ![j].isActive = FALSE]
    /\ UNCHANGED <<logs, execs, activeJobs, poll, wk, crashes, cron, lm, overlap, calc, ev>>

\* ------------------------------------------------------------------- time
AgeJob(d) ==
    [d EXCEPT
       !.nextRunAt = IF @ = NullTime THEN NullTime ELSE Max(@ - 1, 0 - MaxOver),
       !.lockedAt = IF @ = NullTime THEN NullTime ELSE Min(@ + 1, MaxAge),
       !.endTime = IF @ = NullTime THEN NullTime ELSE Max(@ - 1, 0)]

AgeExec(e) ==
    IF e.pc = "running" THEN [e EXCEPT !.age = Min(@ + 1, LockTimeout)] ELSE e

AgeWorker(r) ==
    IF r.draining THEN [r EXCEPT !.drainAge = Min(@ + 1, DrainTimeout)] ELSE r

\* one unit of time passes; a timer that is due fires at some later step
Tick ==
    /\ jobs' = [j \in JobIds |-> IF Exists(j) THEN AgeJob(jobs[j]) ELSE jobs[j]]
    /\ execs' = [w \in Workers |-> {AgeExec(e) : e \in execs[w]}]
    /\ wk' = [w \in Workers |-> AgeWorker(wk[w])]
    /\ lm' = AgeLocks(lm)
    /\ UNCHANGED <<logs, activeJobs, poll, crashes, cron, overlap, calc, ev>>

\* ------------------------------------------------------- worker lifecycle
\* start(): stopped -> running
StartWorker(w) ==
    /\ ~wk[w].dead
    /\ ~wk[w].isRunning
    /\ ~wk[w].draining
    /\ wk' = [wk EXCEPT ![w].isRunning = TRUE, ![w].isPaused = FALSE]
    /\ UNCHANGED <<jobs, logs, execs, activeJobs, poll, crashes, cron, lm, overlap, calc, ev>>

\* pause() / resume(): WorkerService and WorkerServiceWithRetry only
PauseWorker(w) ==
    /\ ~wk[w].dead
    /\ wk[w].impl # "Scheduler"
    /\ ~wk[w].isPaused
    /\ wk' = [wk EXCEPT ![w].isPaused = TRUE]
    /\ UNCHANGED <<jobs, logs, execs, activeJobs, poll, crashes, cron, lm, overlap, calc, ev>>

ResumeWorker(w) ==
    /\ ~wk[w].dead
    /\ wk[w].impl # "Scheduler"
    /\ wk[w].isPaused
    /\ wk' = [wk EXCEPT ![w].isPaused = FALSE]
    /\ UNCHANGED <<jobs, logs, execs, activeJobs, poll, crashes, cron, lm, overlap, calc, ev>>

\* ---------------------------------------------------------------- polling
\* poll(): the guard and the slot count, up to the first await
PollBegin(w) ==
    /\ ~wk[w].dead
    /\ wk[w].isRunning
    /\ ~wk[w].isPaused
    /\ poll[w] = NoPoll
    /\ Concurrency - Cardinality(activeJobs[w]) > 0
    /\ poll' = [poll EXCEPT ![w] =
          [left |-> Concurrency - Cardinality(activeJobs[w]), picked |-> {}]]
    /\ UNCHANGED <<jobs, logs, execs, activeJobs, wk, crashes, cron, lm, overlap, calc, ev>>

\* one findOneAndUpdate of pickOne / pickJobs that matches a document
PickOne(w, j) ==
    /\ poll[w] # NoPoll
    /\ poll[w].left > 0
    /\ First(j)
    /\ jobs' = [jobs EXCEPT ![j] = Claimed(jobs[j], w)]
    /\ poll' = [poll EXCEPT ![w].left = @ - 1,
                            ![w].picked = @ \cup {NewExec(j, jobs[j].retryCount)}]
    /\ UNCHANGED <<logs, execs, activeJobs, wk, crashes, cron, lm, overlap, calc, ev>>

\* the loop ends (limit reached or no match); processJob for every picked job
PollEnd(w) ==
    /\ poll[w] # NoPoll
    /\ poll[w].left = 0 \/ \A j \in JobIds : ~Eligible(j)
    /\ execs' = [execs EXCEPT ![w] = @ \cup poll[w].picked]
    /\ activeJobs' = [activeJobs EXCEPT ![w] = @ \cup {e.job : e \in poll[w].picked}]
    /\ poll' = [poll EXCEPT ![w] = NoPoll]
    /\ UNCHANGED <<jobs, logs, wk, crashes, cron, lm, overlap, calc, ev>>

\* the poll timer fires while an earlier poll() of the worker still awaits
\* the store: poll() has no guard against that, and counts the free slots
\* from activeJobs, which the earlier poll has not added to yet
PollAgain(w) ==
    /\ ~wk[w].dead
    /\ wk[w].isRunning
    /\ ~wk[w].isPaused
    /\ poll[w] # NoPoll
    /\ overlap[w] = NoPoll
    /\ Concurrency - Cardinality(activeJobs[w]) > 0
    /\ overlap' = [overlap EXCEPT ![w] =
          [left |-> Concurrency - Cardinality(activeJobs[w]), picked |-> {}]]
    /\ UNCHANGED <<jobs, logs, execs, activeJobs, poll, wk, crashes, cron, lm, calc, ev>>

\* one findOneAndUpdate of the second poll that matches a document
PickOneAgain(w, j) ==
    /\ overlap[w] # NoPoll
    /\ overlap[w].left > 0
    /\ First(j)
    /\ jobs' = [jobs EXCEPT ![j] = Claimed(jobs[j], w)]
    /\ overlap' = [overlap EXCEPT ![w].left = @ - 1,
                                  ![w].picked = @ \cup {NewExec(j, jobs[j].retryCount)}]
    /\ UNCHANGED <<logs, execs, activeJobs, poll, wk, crashes, cron, lm, calc, ev>>

\* the loop of the second poll ends; processJob for every job it picked
PollAgainEnd(w) ==
    /\ overlap[w] # NoPoll
    /\ overlap[w].left = 0 \/ \A j \in JobIds : ~Eligible(j)
    /\ execs' = [execs EXCEPT ![w] = @ \cup overlap[w].picked]
    /\ activeJobs' = [activeJobs EXCEPT ![w] = @ \cup {e.job : e \in overlap[w].picked}]
    /\ overlap' = [overlap EXCEPT ![w] = NoPoll]
    /\ UNCHANGED <<jobs, logs, poll, wk, crashes, cron, lm, calc, ev>>

\* -------------------------------------------------------------- execution
\* the update that marks the job RUNNING: updateOne keyed on _id alone
MarkRunning(d, w) == [d EXCEPT !.status = "RUNNING", !.lockedBy = w, !.lockedAt = 0]

\* WorkerService and WorkerServiceWithRetry save the log entry before the
\* handler runs; JobExecutor builds it (createForJob) and saves it at the end
SavesLogAtStart(impl) == impl # "Scheduler"

NewLog(j, rc, st) ==
    [job |-> j, retryAttempt |-> rc, status |-> st, result |-> Null,
     errorCode |-> Null]

\* log entries still to be inserted by the executions under way
Unsaved == UNION {{e \in execs[w] : e.pc = "running" /\ e.log = 0} : w \in Workers}

\* executeJob / execute up to the handler call
StartExec(w, e) ==
    /\ e \in execs[w]
    /\ e.pc = "queued"
    /\ Len(logs) + Cardinality(Unsaved) < MaxLogs
    /\ jobs' = [jobs EXCEPT ![e.job] = MarkRunning(jobs[e.job], w)]
    /\ IF SavesLogAtStart(wk[w].impl)
       THEN /\ logs' = Append(logs, NewLog(e.job, e.rc, "RUNNING"))
            /\ execs' = [execs EXCEPT ![w] = (@ \ {e}) \cup
                  {[e EXCEPT !.pc = "running", !.log = Len(logs) + 1]}]
       ELSE /\ logs' = logs
            /\ execs' = [execs EXCEPT ![w] = (@ \ {e}) \cup
                  {[e EXCEPT !.pc = "running"]}]
    /\ ev' = Emit(ev, w, "job:start", e.job)
    /\ UNCHANGED <<activeJobs, poll, wk, crashes, cron, lm, overlap, calc>>

\* the outcome written to the job document: an update keyed on _id alone,
\* computed from the document read at claim time
OutcomeUpdate(impl, d, rc, out) ==
    IF out \in Results THEN SuccessUpdate(d, out) ELSE FailureUpdate(impl, d, rc, out)

\* complete(result) / logSuccess, fail(error, code) / logFailure on an entry
ClosedLog(l, impl, out) ==
    IF out \in Results
    THEN [l EXCEPT !.status = "SUCCESS", !.result = out]
    ELSE [l EXCEPT !.status = LogStatus(impl, out), !.errorCode = ClassifyError(out)]

\* the log entry of the attempt is closed (JobExecutor inserts it now)
CloseLog(ls, e, impl, out) ==
    IF e.log = 0
    THEN Append(ls, ClosedLog(NewLog(e.job, e.rc, "RUNNING"), impl, out))
    ELSE [ls EXCEPT ![e.log] = ClosedLog(@, impl, out)]

\* the entry stays in activeJobs
FreeSlotNever(a, w, j) == a

\* the slot of a job once its promise has settled: finally / .finally
\* deletes the entry of activeJobs
FreeSlot(a, w, j) == [a EXCEPT ![w] = @ \ {j}]

\* the event emitted when the execution returns: Scheduler and WorkerService
\* emit job:failed for every failure; WorkerServiceWithRetry emits job:retry
\* when retryResult.shouldRetry
OutcomeEvent(impl, d, rc, out) ==
    IF out \in Results THEN "job:complete"
    ELSE IF impl = "WithRetry" /\ CanRetry(impl, d, rc, out) THEN "job:retry"
    ELSE "job:failed"

\* the rest of executeJob once the race of executeWithTimeout is decided:
\* log closed, outcome written, the event emitted, the job's slot in
\* activeJobs freed
Settle(w, e, out) ==
    /\ logs' = CloseLog(logs, e, wk[w].impl, out)
    /\ jobs' = [jobs EXCEPT ![e.job] = OutcomeUpdate(wk[w].impl, jobs[e.job], e.rc, out)]
    /\ execs' = [execs EXCEPT ![w] = @ \ {e}]
    /\ activeJobs' = FreeSlot(activeJobs, w, e.job)
    /\ ev' = Emit(ev, w, OutcomeEvent(wk[w].impl, jobs[e.job], e.rc, out), e.job)
    /\ UNCHANGED <<poll, wk, crashes, cron, lm, overlap, calc>>

\* taskHandlers[job.taskType] is undefined: execute throws before any
\* handler is called, after the job was marked RUNNING
HandlerMissing(w, e) ==
    /\ e \in execs[w]
    /\ e.pc = "running"
    /\ jobs[e.job].taskType \notin Handlers
    /\ Settle(w, e, NoHandlerMessage)

\* the handler's promise settles first: it returns, or throws an error
HandlerReturn(w, e, out) ==
    /\ e \in execs[w]
    /\ e.pc = "running"
    /\ jobs[e.job].taskType \in Handlers
    /\ Settle(w, e, out)

\* the timer of executeWithTimeout (job.lockTimeout) settles first
HandlerTimeout(w, e) ==
    /\ e \in execs[w]
    /\ e.pc = "running"
    /\ e.age >= LockTimeout
    /\ jobs[e.job].taskType \in Handlers
    /\ Settle(w, e, TimeoutMessage)

\* ------------------------------------------------- store operations fail
\* worker.on('job:start', ...), worker.on('error', ...): the application
\* attaches its listeners
Listen(w) ==
    /\ ~ev[w].listening
    /\ ev' = [ev EXCEPT ![w].listening = TRUE]
    /\ UNCHANGED <<jobs, logs, execs, activeJobs, poll, wk, crashes, cron, lm,
                   overlap, calc>>

\* a findOneAndUpdate of pickMany / pickJobs rejects: the jobs array is lost
\* with the rejection and the catch of poll() emits 'error'
PollFails(w) ==
    /\ poll[w] # NoPoll
    /\ poll[w].left > 0
    /\ ev[w].faults < MaxFaults
    /\ poll' = [poll EXCEPT ![w] = NoPoll]
    /\ ev' = [Emit(ev, w, "error", Null) EXCEPT ![w].faults = @ + 1]
    /\ UNCHANGED <<jobs, logs, execs, activeJobs, wk, crashes, cron, lm,
                   overlap, calc>>

\* a store write of the try block rejects (the log entry or the update to
\* RUNNING before the handler, the log entry or the outcome after it
\* returned): the catch block records the attempt as failed with that error
StoreFault(w, e) ==
    /\ e \in execs[w]
    /\ e.pc = "running"
    /\ jobs[e.job].taskType \in Handlers
    /\ ev[w].faults < MaxFaults
    /\ logs' = CloseLog(logs, e, wk[w].impl, StoreErrorMessage)
    /\ jobs' = [jobs EXCEPT ![e.job] =
          OutcomeUpdate(wk[w].impl, jobs[e.job], e.rc, StoreErrorMessage)]
    /\ execs' = [execs EXCEPT ![w] = @ \ {e}]
    /\ activeJobs' = FreeSlot(activeJobs, w, e.job)
    /\ ev' = [Emit(ev, w, OutcomeEvent(wk[w].impl, jobs[e.job], e.rc,
                                      StoreErrorMessage), e.job)
                EXCEPT ![w].faults = @ + 1]
    /\ UNCHANGED <<poll, wk, crashes, cron, lm, overlap, calc>>

\* the handler threw `out` and a store write of the catch block rejects:
\* the rejection leaves execute / executeJob.  `second` tells whether the
\* first write of the catch block was done (the log entry for JobExecutor
\* and WorkerService, the job document for WorkerServiceWithRetry).
\* Scheduler.processJob emits job:error and rethrows; the promise kept in
\* activeJobs rejects with no handler attached to it
ExecThrows(w, e, out, second) ==
    /\ e \in execs[w]
    /\ e.pc = "running"
    /\ jobs[e.job].taskType \in Handlers
    /\ ev[w].faults < MaxFaults
    /\ IF second /\ wk[w].impl # "WithRetry"
       THEN logs' = CloseLog(logs, e, wk[w].impl, out)
       ELSE logs' = logs
    /\ IF second /\ wk[w].impl = "WithRetry"
       THEN jobs' = [jobs EXCEPT ![e.job] =
               OutcomeUpdate(wk[w].impl, jobs[e.job], e.rc, out)]
       ELSE jobs' = jobs
    /\ execs' = [execs EXCEPT ![w] = @ \ {e}]
    /\ activeJobs' = FreeSlot(activeJobs, w, e.job)
    /\ ev' = [(IF wk[w].impl = "Scheduler"
                THEN Emit(ev, w, "job:error", e.job) ELSE ev)
                EXCEPT ![w].faults = @ + 1, ![w].escaped = TRUE]
    /\ UNCHANGED <<poll, wk, crashes, cron, lm, overlap, calc>>

\* store operations of the workers W that fail
Faults(W, O) ==
    \/ \E w \in W : PollFails(w)
    \/ \E w \in W : \E e \in execs[w] : StoreFault(w, e)
    \/ \E w \in W : \E e \in execs[w] : \E out \in O \ Results, second \in BOOLEAN :
          ExecThrows(w, e, out, second)

\* TTL index of the log collection: the oldest entry expires
Shift(e) == IF e.log > 0 THEN [e EXCEPT !.log = @ - 1] ELSE e

LogTTL ==
    /\ logs # <<>>
    /\ \A w \in Workers : \A e \in execs[w] : e.log # 1
    /\ logs' = Tail(logs)
    /\ execs' = [w \in Workers |-> {Shift(e) : e \in execs[w]}]
    /\ UNCHANGED <<jobs, activeJobs, poll, wk, crashes, cron, lm, overlap, calc, ev>>

\* ---------------------------------------------------- recovery and release
\* a filter that takes every lock for stale
StaleClaimAnyAge(d) ==
    /\ d.status \in {"QUEUED", "RUNNING"}
    /\ d.lockedBy # Null

\* the filter of JobPicker.recoverStaleJobs
StaleClaim(d) ==
    /\ d.status \in {"QUEUED", "RUNNING"}
    /\ d.lockedBy # Null
    /\ d.lockedAt # NullTime
    /\ d.lockedAt > LockTimeout

\* an update that counts the attempt and resets nothing
RecoveredCountOnly(d) == [d EXCEPT !.retryCount = @ + 1]

\* its update: $set status, lockedBy, lockedAt; $inc retryCount
Recovered(d) ==
    [d EXCEPT !.status = "SCHEDULED", !.lockedBy = Null, !.lockedAt = NullTime,
              !.retryCount = @ + 1]

\* updateMany(filter, update) applied to the collection js
RecoverAll(js) ==
    [j \in JobIds |-> IF StaleClaim(js[j]) THEN Recovered(js[j]) ELSE js[j]]

\* the staleRecoveryTimer of Scheduler.start: one updateMany
RecoverStaleJobs(w) ==
    /\ ~wk[w].dead
    /\ wk[w].isRunning
    /\ wk[w].impl = "Scheduler"
    /\ \E j \in JobIds : StaleClaim(jobs[j])
    /\ \A j \in JobIds : StaleClaim(jobs[j]) => jobs[j].retryCount < MaxRetryCount
    /\ jobs' = RecoverAll(jobs)
    /\ UNCHANGED <<logs, execs, activeJobs, poll, wk, crashes, cron, lm, overlap, calc, ev>>

\* releaseAll / releaseAllJobs: updateMany({ lockedBy: workerId })
Released(d) == [d EXCEPT !.status = "SCHEDULED", !.lockedBy = Null, !.lockedAt = NullTime]

ReleaseAll(w) ==
    [j \in JobIds |-> IF jobs[j].lockedBy = w THEN Released(jobs[j]) ELSE jobs[j]]

\* stop(): isRunning = false, timers cleared; with no active job the held
\* jobs are released at once, otherwise the drain starts
StopBegin(w) ==
    /\ ~wk[w].dead
    /\ wk[w].isRunning
    /\ IF activeJobs[w] = {}
       THEN /\ jobs' = ReleaseAll(w)
            /\ wk' = [wk EXCEPT ![w].isRunning = FALSE]
       ELSE /\ jobs' = jobs
            /\ wk' = [wk EXCEPT ![w].isRunning = FALSE, ![w].draining = TRUE,
                                ![w].drainAge = 0, ![w].awaited = activeJobs[w]]
    /\ UNCHANGED <<logs, execs, activeJobs, poll, crashes, cron, lm, overlap, calc, ev>>

\* the awaited promises have settled, or the 30 s timer of the race fired
\* (Scheduler.stop awaits Promise.allSettled with no deadline)
DrainOver(w) ==
    \/ \A e \in execs[w] : e.job \notin wk[w].awaited
    \/ /\ wk[w].impl # "Scheduler"
       /\ wk[w].drainAge >= DrainTimeout

\* stop() after the drain: the held jobs are released
StopRelease(w) ==
    /\ ~wk[w].dead
    /\ wk[w].draining
    /\ DrainOver(w)
    /\ jobs' = ReleaseAll(w)
    /\ wk' = [wk EXCEPT ![w].draining = FALSE, ![w].drainAge = 0, ![w].awaited = {}]
    /\ UNCHANGED <<logs, execs, activeJobs, poll, crashes, cron, lm, overlap, calc, ev>>

\* Job.releaseStaleLocks(lockTimeout): one updateMany that clears lockedBy
\* and lockedAt of every document whose lock is older than lockTimeout,
\* whatever its status, and leaves the status as it is
ReleaseStaleLocks ==
    /\ \E j \in JobIds : jobs[j].lockedBy # Null /\ jobs[j].lockedAt > LockTimeout
    /\ jobs' = [j \in JobIds |->
                  IF jobs[j].lockedBy # Null /\ jobs[j].lockedAt > LockTimeout
                  THEN [jobs[j] EXCEPT !.lockedBy = Null, !.lockedAt = NullTime]
                  ELSE jobs[j]]
    /\ UNCHANGED <<logs, execs, activeJobs, poll, wk, crashes, cron, lm, overlap, calc, ev>>

\* job.acquireLock(workerId) on a loaded document: one findOneAndUpdate
\* keyed on _id whose filter asks for no lock or a lock older than the
\* job's lockTimeout, and nothing of the status
JobAcquireLock(j, w) ==
    /\ Exists(j)
    /\ jobs[j].lockedBy = Null \/ jobs[j].lockedAt > LockTimeout
    /\ jobs' = [jobs EXCEPT ![j].lockedBy = w, ![j].lockedAt = 0]
    /\ UNCHANGED <<logs, execs, activeJobs, poll, wk, crashes, cron, lm, overlap, calc, ev>>

\* the worker process is lost: its memory goes, the store keeps its locks
Crash(w) ==
    /\ ~wk[w].dead
    /\ crashes < MaxCrashes
    /\ execs[w] # {} \/ poll[w] # NoPoll
    /\ crashes' = crashes + 1
    /\ execs' = [execs EXCEPT ![w] = {}]
    /\ activeJobs' = [activeJobs EXCEPT ![w] = {}]
    /\ poll' = [poll EXCEPT ![w] = NoPoll]
    /\ overlap' = [overlap EXCEPT ![w] = NoPoll]
    /\ wk' = [wk EXCEPT ![w] = [NewWorker(@.impl) EXCEPT !.dead = TRUE]]
    /\ UNCHANGED <<jobs, logs, cron, lm, calc, ev>>

\* ------------------------------------------------------- cron schedules
\* Dates are whole minutes since a midnight; getHours and getMinutes
HourOf(t) == (t \div 60) % 24
MinuteOf(t) == t % 60

\* Date.setMinutes / setHours: the field is replaced, an overflow carries
SetMinutes(t, m) == t - MinuteOf(t) + m
SetHours(t, h) == t - HourOf(t) * 60 + h * 60

\* the minute and hour fields of a cron expression: "*", "*/n" or a number
\* ("*/5 9 * * *" is <<[kind |-> "step", n |-> 5], [kind |-> "at", n |-> 9]>>)
CronExprs ==
    {<<m, h>> : m \in {Star, [kind |-> "step", n |-> 5], [kind |-> "at", n |-> 30]},
                h \in {Star, [kind |-> "at", n |-> 9]}}

\* JobExecutor.getNextCronRun(cronExpression, from)
GetNextCronRun(expr, from) ==
    LET minute == expr[1]
        hour == expr[2]
        n1 == IF minute.kind = "at" THEN SetMinutes(from, minute.n) ELSE from
        n2 == IF hour.kind = "at" THEN SetHours(n1, hour.n) ELSE n1
    IN  IF n2 <= from
        THEN IF minute.kind = "step"
             THEN SetMinutes(n2, MinuteOf(from) + minute.n)
             ELSE IF hour.kind = "any" THEN n2 + 60 ELSE n2 + 24 * 60
        ELSE n2

\* calculateNextRun of a job with a cronExpression: JobExecutor parses it,
\* WorkerService and WorkerServiceWithRetry add one hour
CronNextRun(impl, expr, now) ==
    IF impl = "Scheduler" THEN GetNextCronRun(expr, now) ELSE now + 60

\* the clock moves on, by a minute or by most of an hour
CronTick(step) ==
    /\ cron.impl # Null
    /\ cron.now + step <= cron.nextRunAt + MaxCronWait
    /\ cron' = [cron EXCEPT !.now = @ + step]
    /\ UNCHANGED <<jobs, logs, execs, activeJobs, poll, wk, crashes, lm, overlap, calc, ev>>

\* the job is due, is claimed and run, and its handler succeeds at "now":
\* the success path writes the next occurrence (the job has no endTime)
CronRun ==
    /\ cron.impl # Null
    /\ cron.runs < MaxCronRuns
    /\ cron.nextRunAt <= cron.now
    /\ cron' = [cron EXCEPT !.nextRunAt = CronNextRun(cron.impl, cron.expr, cron.now),
                            !.prev = cron.nextRunAt, !.done = cron.now,
                            !.runs = @ + 1]
    /\ UNCHANGED <<jobs, logs, execs, activeJobs, poll, wk, crashes, lm, overlap, calc, ev>>

\* ------------------------------------------------------- classifyError
\* the substrings the classifyError methods look for in the lower-cased
\* message; a message is modelled by the set of those it holds
Keywords ==
    {"timeout", "network", "econnrefused", "validation", "not found", "handler",
     "memory", "rate limit", "permission", "forbidden"}

Messages == {m \in SUBSET Keywords : Cardinality(m) <= MaxKeywords}

\* the if-chain of each classifyError, in its order: the substrings of a
\* test and the code it returns.  JobExecutor stops after 'handler',
\* WorkerService after 'memory', RetryManager has all eight tests
ClassifyRules(impl) ==
    LET common == << <<{"timeout"}, "TIMEOUT">>,
                     <<{"network", "econnrefused"}, "NETWORK_ERROR">>,
                     <<{"validation"}, "VALIDATION_ERROR">>,
                     <<{"not found"}, "NOT_FOUND">>,
                     <<{"handler"}, "HANDLER_ERROR">> >>
        memory == << <<{"memory"}, "MEMORY_ERROR">> >>
        more   == << <<{"rate limit"}, "RATE_LIMIT">>,
                     <<{"permission", "forbidden"}, "PERMISSION_ERROR">> >>
    IN  CASE impl = "Scheduler" -> common
          [] impl = "WorkerService" -> common \o memory
          [] impl = "WithRetry" -> common \o memory \o more

\* the first test of the chain that the message passes decides
RECURSIVE FirstMatch(_, _)
FirstMatch(rules, m) ==
    IF rules = <<>> THEN "UNKNOWN_ERROR"
    ELSE IF rules[1][1] \cap m # {} THEN rules[1][2]
    ELSE FirstMatch(Tail(rules), m)

\* classifyError(error) of an implementation
ClassifyCall(impl, m) ==
    /\ calc' = [NoCalc EXCEPT !.fn = "classifyError", !.impl = impl, !.msg = m,
                              !.code = FirstMatch(ClassifyRules(impl), m)]
    /\ UNCHANGED <<jobs, logs, execs, activeJobs, poll, wk, crashes, cron, lm,
                   overlap, ev>>

\* ------------------------------------------------------- calculateDelay
Strategies == {"fixed", "exponential", "linear", "fibonacci"}

\* the loop of RetryManager.fibonacci: [a, b] = [b, a + b] for i = 2 .. n
RECURSIVE FibLoop(_, _, _, _)
FibLoop(a, b, i, n) == IF i > n THEN b ELSE FibLoop(b, a + b, i + 1, n)

\* RetryManager.fibonacci(n)
Fibonacci(n) == IF n <= 1 THEN 1 ELSE FibLoop(1, 1, 2, n)

\* calculateDelay(attemptNumber, jobConfig): the strategy's delay, capped
\* by maxDelay, then addJitter (delay + jitter, at least 0) and Math.round;
\* jitter is the percentage drawn, 0 also standing for jitterEnabled false
CalculateDelay(strategy, k, base, max, jitter) ==
    LET raw == CASE strategy = "fixed" -> base
                 [] strategy = "exponential" -> base * (2 ^ k)
                 [] strategy = "linear" -> base * (k + 1)
                 [] strategy = "fibonacci" -> base * Fibonacci(k + 1)
        capped == Min(raw, max)
        scaled == Max(0, capped * (100 + jitter))
    IN  (scaled + 50) \div 100

DelayCall(strategy, k, base, max, jitter) ==
    /\ calc' = [NoCalc EXCEPT !.fn = "calculateDelay", !.strategy = strategy,
                              !.k = k, !.base = base, !.max = max,
                              !.jitter = jitter,
                              !.delay = CalculateDelay(strategy, k, base, max, jitter)]
    /\ UNCHANGED <<jobs, logs, execs, activeJobs, poll, wk, crashes, cron, lm,
                   overlap, ev>>

\* ------------------------------------------------------- the lock manager
\* a filter of acquire that matches whatever the document holds
AcquirableAlways(d, w) == TRUE

\* acquire's filter: no document of the id (the upsert inserts one), or
\* expiresAt < now, or holder = workerId.  Otherwise the upsert fails on
\* the unique index (error 11000) and acquire returns false
Acquirable(d, w) == d.holder = Null \/ d.left < 0 \/ d.holder = w

\* the collection and activeLocks after acquire(l) by w
AcquireLock(m, w, l) ==
    IF Acquirable(m.locks[l], w)
    THEN [m EXCEPT !.locks[l] = [holder |-> w, left |-> LockTTL],
                   !.activeLocks[w][l] = LockTTL]
    ELSE m

\* a release that leaves the Lock document in place
ReleaseLockKeeps(m, w, l) == [m EXCEPT !.activeLocks[w][l] = NullTime]

\* after release(l) by w: deleteOne({lockId, holder: workerId}), and the
\* entry of activeLocks is dropped whatever was deleted
ReleaseLock(m, w, l) ==
    [m EXCEPT !.locks[l] = IF @.holder = w THEN NoLock ELSE @,
              !.activeLocks[w][l] = NullTime]

\* after renew(l) by w: the holder's document gets a new expiresAt, and
\* so does the entry of activeLocks if there is one
RenewLock(m, w, l) ==
    IF m.locks[l].holder = w
    THEN [m EXCEPT !.locks[l].left = LockTTL,
                   !.activeLocks[w][l] = IF @ = NullTime THEN @ ELSE LockTTL]
    ELSE m

Acquire(w, l) ==
    /\ lm' = [AcquireLock(lm, w, l) EXCEPT
                 !.ret = Return(w, "acquire", l, Acquirable(lm.locks[l], w), Null, Null)]
    /\ UNCHANGED <<jobs, logs, execs, activeJobs, poll, wk, crashes, cron, overlap, calc, ev>>

Release(w, l) ==
    /\ lm' = [ReleaseLock(lm, w, l) EXCEPT
                 !.ret = Return(w, "release", l, lm.locks[l].holder = w, Null, Null)]
    /\ UNCHANGED <<jobs, logs, execs, activeJobs, poll, wk, crashes, cron, overlap, calc, ev>>

Renew(w, l) ==
    /\ lm' = [RenewLock(lm, w, l) EXCEPT
                 !.ret = Return(w, "renew", l, lm.locks[l].holder = w, Null, Null)]
    /\ UNCHANGED <<jobs, logs, execs, activeJobs, poll, wk, crashes, cron, overlap, calc, ev>>

\* the TTL index of the collection removes a document whose expiresAt has
\* passed
ExpireLock(l) ==
    /\ lm.locks[l].holder # Null
    /\ lm.locks[l].left < 0
    /\ lm' = [lm EXCEPT !.locks[l] = NoLock]
    /\ UNCHANGED <<jobs, logs, execs, activeJobs, poll, wk, crashes, cron, overlap, calc, ev>>

CouldNotAcquire == "Could not acquire lock"

\* withLock up to the call of fn: acquire, and the early return when the
\* lock was not obtained
WithLockBegin(w, i, l) ==
    /\ lm.calls[w][i].pc = "idle"
    /\ \A k \in 1 .. i - 1 : lm.calls[w][k].pc # "idle"
    /\ lm' = IF Acquirable(lm.locks[l], w)
             THEN [AcquireLock(lm, w, l) EXCEPT
                     !.calls[w][i] = [lockId |-> l, pc |-> "fn", out |-> Null]]
             ELSE [lm EXCEPT
                     !.ret = Return(w, "withLock", l, FALSE, Null, CouldNotAcquire)]
    /\ UNCHANGED <<jobs, logs, execs, activeJobs, poll, wk, crashes, cron, overlap, calc, ev>>

\* fn returns a value or throws: try / catch fix what withLock will
\* return, and finally is entered
FnEnd(w, i, out) ==
    /\ lm.calls[w][i].pc = "fn"
    /\ lm' = [lm EXCEPT !.calls[w][i].pc = "finally", !.calls[w][i].out = out]
    /\ UNCHANGED <<jobs, logs, execs, activeJobs, poll, wk, crashes, cron, overlap, calc, ev>>

\* what withLock returns after fn ended with out
WithLockReturn(w, l, out) ==
    IF out \in Results THEN Return(w, "withLock", l, TRUE, out, Null)
    ELSE Return(w, "withLock", l, FALSE, Null, out)

\* finally: release, then the return
WithLockEnd(w, i) ==
    /\ lm.calls[w][i].pc = "finally"
    /\ lm' = [ReleaseLock(lm, w, lm.calls[w][i].lockId) EXCEPT
                 !.calls[w][i] = NoCall,
                 !.ret = WithLockReturn(w, lm.calls[w][i].lockId, lm.calls[w][i].out)]
    /\ UNCHANGED <<jobs, logs, execs, activeJobs, poll, wk, crashes, cron, overlap, calc, ev>>

\* ------------------------------------------------------------ specification
\* the job API over the jobs J
Api(J) ==
    \/ \E j \in J, jt \in JobTypes, mr \in 0..MaxMaxRetries, pr \in Priorities,
          given \in BOOLEAN, dep \in J \cup {Null}, tt \in TaskTypes,
          et \in EndTimes :
          CreateJobWith(j, jt, mr, pr, given, dep, tt, et)
    \/ \E j \in J : CancelJob(j)
    \/ \E j \in J : PauseJob(j)
    \/ \E j \in J : ResumeJob(j)
    \/ \E j \in J : DeleteJob(j)

\* polling and execution by the workers W, the handlers ending as in O
Work(W, O) ==
    \/ \E w \in W : PollBegin(w)
    \/ \E w \in W, j \in JobIds : PickOne(w, j)
    \/ \E w \in W : PollEnd(w)
    \/ \E w \in W : \E e \in execs[w] : StartExec(w, e)
    \/ \E w \in W : \E e \in execs[w] : \E out \in O : HandlerReturn(w, e, out)
    \/ \E w \in W : \E e \in execs[w] : HandlerTimeout(w, e)

\* polls of the workers W that overlap an earlier poll of the same worker
Overlap(W) ==
    \/ \E w \in W : PollAgain(w)
    \/ \E w \in W, j \in JobIds : PickOneAgain(w, j)
    \/ \E w \in W : PollAgainEnd(w)

\* executions by the workers W of jobs whose taskType has no handler
Missing(W) == \E w \in W : \E e \in execs[w] : HandlerMissing(w, e)

\* start, pause, resume and stop of the workers W
Control(W) ==
    \/ \E w \in W : StartWorker(w)
    \/ \E w \in W : PauseWorker(w)
    \/ \E w \in W : ResumeWorker(w)
    \/ \E w \in W : StopBegin(w)
    \/ \E w \in W : StopRelease(w)

\* stale-lock recovery by, and loss of, the workers W
Recovery(W) ==
    \/ \E w \in W : RecoverStaleJobs(w)
    \/ \E w \in W : Crash(w)

Next ==
    \/ Api(JobIds)
    \/ Work(Workers, Outcomes)
    \/ Missing(Workers)
    \/ Overlap(Workers)
    \/ Control(Workers)
    \/ Recovery(Workers)
    \/ LogTTL
    \/ Tick

Spec == Init /\ [][Next]_vars

\* --- one worker of any implementation runs one job of any type and any
\* maxRetries, with nothing else acting on the job
InitOne == InitWith([w \in Workers |-> IF w = "w1" THEN Impls ELSE {"Scheduler"}])

NextRetry ==
    \/ \E jt \in JobTypes, mr \in 0..MaxMaxRetries :
          CreateJob("A", jt, mr, 1, FALSE, Null)
    \/ StartWorker("w1")
    \/ Work({"w1"}, PlainOutcomes)
    \/ Tick

SpecRetry == InitOne /\ [][NextRetry]_vars

\* --- two workers, the first of any implementation, poll a store of two
\* one-time jobs, of the same priority or not
NextClaim ==
    \/ CreateJob("A", "ONE_TIME", MaxMaxRetries, 1, FALSE, Null)
    \/ \E pr \in Priorities : CreateJob("B", "ONE_TIME", MaxMaxRetries, pr, FALSE, Null)
    \/ \E w \in Workers : StartWorker(w)
    \/ Work(Workers, Successes)
    \/ Tick

SpecClaim == InitOne /\ [][NextClaim]_vars

\* --- two workers of any two implementations compete for one one-time job;
\* either may be stopped, and a Scheduler runs its stale-lock sweep
NextRace ==
    \/ CreateJob("A", "ONE_TIME", MaxMaxRetries, 1, FALSE, Null)
    \/ \E w \in Workers : StartWorker(w)
    \/ Work(Workers, PlainOutcomes)
    \/ \E w \in Workers : StopBegin(w)
    \/ \E w \in Workers : StopRelease(w)
    \/ \E w \in Workers : RecoverStaleJobs(w)
    \/ Tick

SpecRace == Init /\ [][NextRace]_vars

\* --- the stale-lock sweep applied to every store of two documents that
\* polls, executions, cancellations, releases and losses of workers leave
\* behind: an unlocked document is SCHEDULED, COMPLETED, FAILED or PAUSED;
\* a locked one is QUEUED or RUNNING, or CANCELLED while it was QUEUED; the
\* lock is of any worker and of any age
StoreDoc(st, by, at, rc) ==
    [NewJob("ONE_TIME", st, 0, MaxMaxRetries, 1, Null) EXCEPT
        !.lockedBy = by, !.lockedAt = at, !.retryCount = rc]

StoreDocs ==
    {StoreDoc(st, Null, NullTime, rc) :
        st \in {"SCHEDULED", "COMPLETED", "FAILED", "PAUSED"},
        rc \in 0 .. MaxStoreRetries}
    \cup
    {StoreDoc(x[1], x[2], x[3], x[4]) :
        x \in {"QUEUED", "RUNNING", "CANCELLED"} \X Workers \X (0 .. MaxAge)
              \X (0 .. MaxStoreRetries)}

InitSweep ==
    /\ jobs \in [JobIds -> StoreDocs]
    /\ logs = <<>>
    /\ execs = [w \in Workers |-> {}]
    /\ activeJobs = [w \in Workers |-> {}]
    /\ poll = [w \in Workers |-> NoPoll]
    /\ wk = [w \in Workers |-> NewWorker("Scheduler")]
    /\ crashes = 0
    /\ cron = NoCron
    /\ lm = NoLocks
    /\ overlap = [w \in Workers |-> NoPoll]
    /\ calc = NoCalc
    /\ ev = NoEvents

NextSweep ==
    \/ \E w \in Workers : StartWorker(w)
    \/ \E w \in Workers : RecoverStaleJobs(w)
    \/ Tick

SpecSweep == InitSweep /\ [][NextSweep]_vars

\* --- the job API at work on a parent job and a second job that may depend
\* on it, one worker of any implementation running them
NextApi ==
    \/ \E given \in BOOLEAN :
          CreateJob("A", "ONE_TIME", MaxMaxRetries, 1, given, Null)
    \/ \E given \in BOOLEAN, dep \in {Null, "A"} :
          CreateJob("B", "ONE_TIME", MaxMaxRetries, 1, given, dep)
    \/ \E j \in JobIds : CancelJob(j)
    \/ \E j \in JobIds : PauseJob(j)
    \/ \E j \in JobIds : ResumeJob(j)
    \/ \E j \in JobIds : DeleteJob(j)
    \/ StartWorker("w1")
    \/ Work({"w1"}, Successes)
    \/ Tick

SpecApi == InitOne /\ [][NextApi]_vars

\* --- one worker that is never stopped, a first job of priority 1 and a
\* second job of priority 2, the log entries expiring.  The poll timer
\* keeps firing, the event loop runs every continuation that is ready, a
\* handler that hangs is cut off by its timer, and time passes.
NextLive ==
    \/ \E jt \in JobTypes : CreateJob("A", jt, 1, 1, FALSE, Null)
    \/ \E jt \in JobTypes : CreateJob("B", jt, 1, 2, FALSE, Null)
    \/ StartWorker("w1")
    \/ Work({"w1"}, PlainOutcomes)
    \/ LogTTL
    \/ Tick

Fairness ==
    /\ WF_vars(StartWorker("w1"))
    /\ WF_vars(PollBegin("w1"))
    /\ WF_vars(\E j \in JobIds : PickOne("w1", j))
    /\ WF_vars(PollEnd("w1"))
    /\ WF_vars(\E e \in execs["w1"] : StartExec("w1", e))
    /\ WF_vars(\E e \in execs["w1"] : HandlerTimeout("w1", e))
    /\ WF_vars(LogTTL)
    /\ WF_vars(Tick)

SpecLive == InitOne /\ [][NextLive]_vars /\ Fairness

\* --- one worker of any implementation runs one job of any type, with or
\* without a handler for its taskType and with or without endTime; the
\* handler returns a value, throws one of the errors, or hangs
NextOutcome ==
    \/ \E jt \in JobTypes, mr \in 0..MaxMaxRetries, tt \in TaskTypes,
          et \in EndTimes :
          CreateJobWith("A", jt, mr, 1, FALSE, Null, tt, et)
    \/ StartWorker("w1")
    \/ Work({"w1"}, Outcomes)
    \/ Missing({"w1"})
    \/ Tick

SpecOutcome == InitOne /\ [][NextOutcome]_vars

\* --- one worker of any implementation, with the application listening to
\* its events, runs one job of any type and any maxRetries; the handler
\* returns or throws, and store operations may fail
NextEvents ==
    \/ \E jt \in JobTypes, mr \in 0..MaxMaxRetries :
          CreateJob("A", jt, mr, 1, FALSE, Null)
    \/ Listen("w1")
    \/ StartWorker("w1")
    \/ Work({"w1"}, PlainOutcomes)
    \/ Faults({"w1"}, PlainOutcomes)
    \/ Tick

SpecEvents == InitOne /\ [][NextEvents]_vars

\* --- one worker of any implementation runs one job of either type; the
\* handler returns, throws or hangs, store operations may fail, the log
\* entries expire
NextSlots ==
    \/ \E jt \in JobTypes : CreateJob("A", jt, 1, 1, FALSE, Null)
    \/ StartWorker("w1")
    \/ Work({"w1"}, PlainOutcomes)
    \/ Faults({"w1"}, PlainOutcomes)
    \/ LogTTL
    \/ Tick

\* the event loop runs every continuation that is ready, the timer of
\* executeWithTimeout cuts off a handler that hangs, the log entries
\* expire and time passes
FairnessSlots ==
    /\ WF_vars(\E e \in execs["w1"] : StartExec("w1", e))
    /\ WF_vars(\E e \in execs["w1"] : HandlerTimeout("w1", e))
    /\ WF_vars(LogTTL)
    /\ WF_vars(Tick)

SpecSlots == InitOne /\ [][NextSlots]_vars /\ FairnessSlots

\* --- one worker of any implementation and two due one-time jobs; the poll
\* timer may fire while the worker's earlier poll is still under way
NextOverlap ==
    \/ CreateJob("A", "ONE_TIME", 1, 1, FALSE, Null)
    \/ CreateJob("B", "ONE_TIME", 1, 2, FALSE, Null)
    \/ StartWorker("w1")
    \/ Work({"w1"}, Successes)
    \/ Overlap({"w1"})
    \/ Tick

SpecOverlap == InitOne /\ [][NextOverlap]_vars

\* --- one worker of any implementation and two due one-time jobs; the
\* worker is started, paused, resumed and stopped at any moment
NextStop ==
    \/ CreateJob("A", "ONE_TIME", 1, 1, FALSE, Null)
    \/ CreateJob("B", "ONE_TIME", 1, 2, FALSE, Null)
    \/ Control({"w1"})
    \/ Work({"w1"}, Successes)
    \/ Tick

SpecStop == InitOne /\ [][NextStop]_vars

\* --- one worker of any implementation runs one one-time job and may be
\* lost with it; locks are taken and stale locks released through the
\* model's own methods
NextStale ==
    \/ CreateJob("A", "ONE_TIME", 1, 1, FALSE, Null)
    \/ StartWorker("w1")
    \/ Work({"w1"}, Successes)
    \/ Crash("w1")
    \/ ReleaseStaleLocks
    \/ \E w \in Workers : JobAcquireLock("A", w)
    \/ Tick

SpecStale == InitOne /\ [][NextStale]_vars

\* --- two lock managers on one Lock collection of two ids, each built by
\* the constructor of a Scheduler: acquire, release and renew at any
\* moment, the locks expiring
InitLock == InitWith([w \in Workers |-> {"Scheduler"}])

NextLock ==
    \/ \E w \in Workers, l \in LockIds : Acquire(w, l)
    \/ \E w \in Workers, l \in LockIds : Release(w, l)
    \/ \E w \in Workers, l \in LockIds : Renew(w, l)
    \/ \E l \in LockIds : ExpireLock(l)
    \/ Tick

SpecLock == InitLock /\ [][NextLock]_vars

\* --- worker w1 runs code under withLock, several calls at a time, fn
\* returning or throwing, while w2 acquires and releases the same locks
NextWithLock ==
    \/ \E i \in 1 .. MaxCalls, l \in LockIds : WithLockBegin("w1", i, l)
    \/ \E i \in 1 .. MaxCalls, out \in PlainOutcomes : FnEnd("w1", i, out)
    \/ \E i \in 1 .. MaxCalls : WithLockEnd("w1", i)
    \/ \E l \in LockIds : Acquire("w2", l)
    \/ \E l \in LockIds : Release("w2", l)
    \/ \E l \in LockIds : ExpireLock(l)
    \/ Tick

SpecWithLock == InitLock /\ [][NextWithLock]_vars

\* --- the pure methods of the executors called on every argument
NextCalc ==
    \/ \E impl \in Impls, m \in Messages : ClassifyCall(impl, m)
    \/ \E strategy \in Strategies, k \in 0 .. MaxAttempt, base \in 1 .. MaxBaseDelay,
          max \in 1 .. MaxCap, jitter \in {0 - JitterPercent, 0, JitterPercent} :
          DelayCall(strategy, k, base, max, jitter)

SpecCalc == InitLock /\ [][NextCalc]_vars

\* --- a recurring job with a cron expression, created at some hour of the
\* day and due at once (the save hook sets nextRunAt), is run successfully
\* again and again by a worker of some implementation
InitCron ==
    /\ StoreInit([w \in Workers |-> {"Scheduler"}])
    /\ lm = NoLocks
    /\ \E impl \in Impls, expr \in CronExprs, h \in 0 .. 23, m \in {0, 15, 58} :
          cron = [NoCron EXCEPT !.impl = impl, !.expr = expr,
                                !.now = h * 60 + m, !.nextRunAt = h * 60 + m]

NextCron ==
    \/ \E step \in {1, 55} : CronTick(step)
    \/ CronRun

SpecCron == InitCron /\ [][NextCron]_vars

\* --- two workers, the second of any implementation, run one one-time
\* job; a worker may be lost with the job it holds.  While a worker lives
\* its timers keep firing and its continuations run: the poll timer, the
\* stale-recovery timer where start() sets one, the timer of
\* executeWithTimeout; and time passes.  Starting a worker is left to the
\* operator.
InitCrash == InitWith([w \in Workers |-> IF w = "w1" THEN {"Scheduler"} ELSE Impls])

NextCrash ==
    \/ CreateJob("A", "ONE_TIME", MaxMaxRetries, 1, FALSE, Null)
    \/ \E w \in Workers : StartWorker(w)
    \/ Work(Workers, Successes)
    \/ Recovery(Workers)
    \/ Tick

FairnessCrash ==
    /\ \A w \in Workers :
          /\ WF_vars(PollBegin(w))
          /\ WF_vars(\E j \in JobIds : PickOne(w, j))
          /\ WF_vars(PollEnd(w))
          /\ WF_vars(\E e \in execs[w] : StartExec(w, e))
          /\ WF_vars(\E e \in execs[w] : HandlerTimeout(w, e))
          /\ WF_vars(RecoverStaleJobs(w))
    /\ WF_vars(Tick)

SpecCrash == InitCrash /\ [][NextCrash]_vars /\ FairnessCrash

\* ------------------------------------------------------------------ claims

\* the executions of job j whose handler is running
InFlight(j) ==
    UNION {{<<w, e>> : e \in {x \in execs[w] : x.job = j /\ x.pc = "running"}} :
           w \in Workers}

\* C1: at every instant a job has at most one handler execution in progress
OneExecutionPerJob == \A j \in JobIds : Cardinality(InFlight(j)) <= 1

\* this step is a claim of job j returned to worker w's poll
GainsPick(w, j) == \E e \in poll'[w].picked \ poll[w].picked : e.job = j

\* C2: a claim step hands the job to exactly one caller: the job is then
\* QUEUED, locked by that worker at the current time, matches the claim
\* filter no longer, and no other poll receives it in the same step
ClaimIsAtomic ==
    [][\A w \in Workers : \A j \in JobIds :
          GainsPick(w, j) =>
             /\ jobs'[j].status = "QUEUED"
             /\ jobs'[j].lockedBy = w
             /\ jobs'[j].lockedAt = 0
             /\ ~Matches(jobs'[j])
             /\ \A v \in Workers \ {w} : ~GainsPick(v, j)]_vars

\* two polls are under way while two jobs are due: each has received one of
\* them, and each job is locked by the worker that received it
ClaimRaceSeen ==
    \E w \in Workers : \E v \in Workers \ {w} :
    \E j \in JobIds : \E k \in JobIds \ {j} :
       /\ \E e \in poll[w].picked : e.job = j
       /\ \E e \in poll[v].picked : e.job = k
       /\ \A e \in poll[w].picked \cup poll[v].picked : jobs[e.job].status = "QUEUED"
       /\ jobs[j].lockedBy = w
       /\ jobs[k].lockedBy = v

\* a write of worker w for its execution e: mark-running or the outcome
WorkerWrite(w, e) ==
    \/ StartExec(w, e)
    \/ \E out \in Outcomes : HandlerReturn(w, e, out)
    \/ HandlerTimeout(w, e)

\* the job is in the state execution e expects and locked by worker w
StillOwned(w, e) ==
    /\ jobs[e.job].lockedBy = w
    /\ jobs[e.job].status = (IF e.pc = "queued" THEN "QUEUED" ELSE "RUNNING")

\* C3: a worker's write that finds the job re-claimed, recovered, released
\* or otherwise changed leaves the job collection as it was
WritesAreConditional ==
    [][\A w \in Workers : \A e \in execs[w] :
          (WorkerWrite(w, e) /\ ~StillOwned(w, e)) => jobs' = jobs]_vars

\* job j is SCHEDULED with nextRunAt <= now, active and unlocked
Due(j) ==
    /\ jobs[j].status = "SCHEDULED"
    /\ jobs[j].nextRunAt # NullTime
    /\ jobs[j].nextRunAt <= 0
    /\ jobs[j].isActive
    /\ jobs[j].lockedBy = Null

\* C4 as stated: every due job eventually leaves that state while a worker
\* keeps running and polling, whatever other jobs are in the store
DueJobIsClaimed == \A j \in JobIds : Due(j) ~> ~Due(j)

\* no other due job precedes j in the claim order
AtHead(j) ==
    /\ Due(j)
    /\ \A k \in JobIds \ {j} : ~(Due(k) /\ Before(k, j))

\* C4: a due job that no other due job precedes in the claim order is
\* eventually claimed or loses that place, while a worker keeps running and
\* polling
HeadJobIsClaimed == \A j \in JobIds : AtHead(j) ~> ~AtHead(j)

\* the second job has been claimed while the first one, which precedes it
\* and recurs, is scheduled for later
SecondJobGetsItsTurn ==
    /\ jobs["B"].status = "QUEUED"
    /\ jobs["B"].lockedBy = "w1"
    /\ jobs["A"].jobType = "RECURRING"
    /\ jobs["A"].status = "SCHEDULED"
    /\ jobs["A"].nextRunAt > 0
    /\ jobs["A"].priority < jobs["B"].priority

\* C5: a job is claimed only if, at that moment, it is SCHEDULED, due and
\* active, and unlocked or locked for longer than lockTimeout
ClaimOnlyWhenEligible ==
    [][\A w \in Workers : \A j \in JobIds :
          GainsPick(w, j) =>
             /\ jobs[j].status = "SCHEDULED"
             /\ jobs[j].nextRunAt # NullTime
             /\ jobs[j].nextRunAt <= 0
             /\ jobs[j].isActive
             /\ \/ jobs[j].lockedBy = Null
                \/ jobs[j].lockedAt # NullTime /\ jobs[j].lockedAt > LockTimeout]_vars

\* a poll has claimed one job while the other job is due and soft-deleted,
\* PAUSED, CANCELLED or WAITING
ClaimPassesOverIneligible ==
    \E w \in Workers : \E j \in JobIds : \E k \in JobIds \ {j} :
       /\ \E e \in poll[w].picked : e.job = j
       /\ jobs[j].status = "QUEUED"
       /\ jobs[j].lockedBy = w
       /\ Exists(k)
       /\ jobs[k].nextRunAt # NullTime
       /\ jobs[k].nextRunAt <= 0
       /\ ~jobs[k].isActive \/ jobs[k].status \in {"PAUSED", "CANCELLED", "WAITING"}

\* C6: an attempt that fails with a retryable error puts the job back to
\* SCHEDULED if and only if its retryCount before the failure is below
\* maxRetries, and moves it to FAILED otherwise
RetryIffRetriesLeft ==
    [][\A w \in Workers : \A e \in execs[w] :
          (HandlerReturn(w, e, "boom") \/ HandlerTimeout(w, e)) =>
             jobs'[e.job].status =
                (IF jobs[e.job].retryCount < jobs[e.job].maxRetries
                 THEN "SCHEDULED" ELSE "FAILED")]_vars

\* the log entries of job j, and those with status st
LogsOf(j) == {i \in 1..Len(logs) : logs[i].job = j}
LogsWith(j, st) == {i \in LogsOf(j) : logs[i].status = st}

\* C7: a job with maxRetries = 2 that failed on every attempt and is FAILED
\* has been attempted three times: three FAILED log entries, retryCount = 2
AlwaysFailingJobExhausts ==
    \A j \in JobIds :
       (/\ jobs[j].status = "FAILED"
        /\ jobs[j].maxRetries = 2
        /\ LogsWith(j, "SUCCESS") = {}) =>
          /\ Cardinality(LogsWith(j, "FAILED")) = jobs[j].maxRetries + 1
          /\ jobs[j].retryCount = jobs[j].maxRetries

\* C8: a one-time job that is FAILED has at most maxRetries + 1 log entries
FailedJobLogsBounded ==
    \A j \in JobIds :
       (jobs[j].status = "FAILED" /\ jobs[j].jobType = "ONE_TIME") =>
          Cardinality(LogsOf(j)) <= jobs[j].maxRetries + 1

\* C9: every job has retryCount <= maxRetries
RetryCountWithinMax ==
    \A j \in JobIds : Exists(j) => jobs[j].retryCount <= jobs[j].maxRetries

\* C10: a job that names a parent is WAITING for as long as the parent is
\* neither COMPLETED nor FAILED
DependentWaitsForParent ==
    \A j \in JobIds :
       (/\ Exists(j)
        /\ jobs[j].dependsOnJobId # Null
        /\ jobs[j].status # "WAITING") =>
          jobs[jobs[j].dependsOnJobId].status \in {"COMPLETED", "FAILED"}


\* ------------------------------------------------------------ dependencies
\* job b is a WAITING child of job a
WaitsFor(b, a) ==
    /\ jobs[b].status = "WAITING"
    /\ jobs[b].dependsOnJobId = a

\* C11: in the step in which a worker's successful execution makes job a
\* COMPLETED, every WAITING job that depends on a becomes SCHEDULED with
\* nextRunAt = now
CompletionReleasesChildren ==
    [][\A a, b \in JobIds :
          (/\ jobs[a].status # "COMPLETED"
           /\ jobs'[a].status = "COMPLETED"
           /\ WaitsFor(b, a))
          => (jobs'[b].status = "SCHEDULED" /\ jobs'[b].nextRunAt = 0)]_vars

\* C12: in the step in which job a becomes FAILED, every WAITING job that
\* depends on a becomes BLOCKED
FailureBlocksChildren ==
    [][\A a, b \in JobIds :
          (/\ jobs[a].status # "FAILED"
           /\ jobs'[a].status = "FAILED"
           /\ WaitsFor(b, a))
          => jobs'[b].status = "BLOCKED"]_vars


\* ------------------------------------------------------------ stale locks
\* job j is QUEUED or RUNNING under a lock older than lockTimeout
StaleLock(j) ==
    /\ jobs[j].status \in {"QUEUED", "RUNNING"}
    /\ jobs[j].lockedBy # Null
    /\ jobs[j].lockedAt # NullTime
    /\ jobs[j].lockedAt > LockTimeout

\* a step of the stale-lock sweep of some worker
SweepStep == \E w \in Workers : RecoverStaleJobs(w)

SweepIsIdempotent ==
    /\ RecoverAll(RecoverAll(jobs)) = RecoverAll(jobs)
    /\ \A j \in JobIds :
          StaleClaim(jobs[j]) => ~StaleClaim(Recovered(jobs[j]))

\* both jobs have been recovered by a sweep
BothRecovered ==
    \A j \in JobIds :
       /\ jobs[j].status = "SCHEDULED"
       /\ jobs[j].lockedBy = Null
       /\ jobs[j].retryCount = MaxStoreRetries + 1


\* job j is QUEUED or RUNNING under the lock of a worker that was lost
Abandoned(j) ==
    /\ jobs[j].status \in {"QUEUED", "RUNNING"}
    /\ jobs[j].lockedBy \in Workers
    /\ wk[jobs[j].lockedBy].dead

SomeWorkerRuns == \E w \in Workers : wk[w].isRunning /\ ~wk[w].dead

\* C14: a job left QUEUED or RUNNING by a lost worker does not stay so: as
\* long as some worker is running, it eventually leaves that state (the
\* stale-lock sweep returns it to SCHEDULED).  Stated for the jobs whose
\* retryCount the sweep can still count up within MaxRetryCount.
AbandonedJobIsRecovered ==
    \A j \in JobIds :
       (Abandoned(j) /\ SomeWorkerRuns /\ jobs[j].retryCount < MaxRetryCount)
          ~> (~Abandoned(j) \/ ~SomeWorkerRuns)


\* --------------------------------------------------------------- outcomes
\* the log entry of execution e once the attempt is closed: the one saved
\* at the start, or the one JobExecutor inserts at the end
LogOf(e) == IF e.log = 0 THEN logs'[Len(logs')] ELSE logs'[e.log]

\* C16: when the deadline of executeWithTimeout ends an attempt, its log
\* entry is closed with status TIMEOUT and the job's lock is released
TimeoutLogsTimeout ==
    [][\A w \in Workers : \A e \in execs[w] :
          HandlerTimeout(w, e) =>
             /\ LogOf(e).status = "TIMEOUT"
             /\ jobs'[e.job].lockedBy = Null
             /\ jobs'[e.job].lockedAt = NullTime]_vars

\* C17: an attempt of a job whose taskType has no handler fails with error
\* code HANDLER_ERROR and leaves the job FAILED, whatever retries remain
MissingHandlerFailsAtOnce ==
    [][\A w \in Workers : \A e \in execs[w] :
          HandlerMissing(w, e) =>
             /\ LogOf(e).errorCode = "HANDLER_ERROR"
             /\ jobs'[e.job].status = "FAILED"]_vars

\* C18: an attempt that fails with an error whose message holds one of the
\* non-retryable keywords leaves the job FAILED, whatever its retryCount
\* and maxRetries, in every implementation
NonRetryableFailsAtOnce ==
    [][\A w \in Workers : \A e \in execs[w] :
          \A err \in HandlerErrors \cup {NoHandlerMessage} :
             (/\ \E keyword \in NonRetryable : Includes(err, keyword)
              /\ (HandlerReturn(w, e, err) \/
                  (err = NoHandlerMessage /\ HandlerMissing(w, e))))
             => jobs'[e.job].status = "FAILED"]_vars


\* C19: when the handler of a claimed ONE_TIME job returns x, the job is
\* COMPLETED with result x, retryCount 0, no error recorded and no lock,
\* and the log entry of the attempt has status SUCCESS and result x
OneTimeSuccessIsRecorded ==
    [][\A w \in Workers : \A e \in execs[w] : \A x \in Results :
          (HandlerReturn(w, e, x) /\ jobs[e.job].jobType = "ONE_TIME") =>
             /\ jobs'[e.job].status = "COMPLETED"
             /\ jobs'[e.job].result = x
             /\ jobs'[e.job].retryCount = 0
             /\ jobs'[e.job].lastError = Null
             /\ jobs'[e.job].lockedBy = Null
             /\ jobs'[e.job].lockedAt = NullTime
             /\ LogOf(e).status = "SUCCESS"
             /\ LogOf(e).result = x]_vars

\* a ONE_TIME job that failed once and then returned "done"
RetriedJobCompleted ==
    \E j \in JobIds :
       /\ jobs[j].jobType = "ONE_TIME"
       /\ jobs[j].status = "COMPLETED"
       /\ jobs[j].result = "done"
       /\ \E i \in 1 .. Len(logs) :
             logs[i].job = j /\ logs[i].status = "FAILED"
       /\ \E i \in 1 .. Len(logs) :
             logs[i].job = j /\ logs[i].status = "SUCCESS" /\ logs[i].result = "done"


\* C20: when the handler of a RECURRING job succeeds, the job is SCHEDULED
\* at the newly computed nextRunAt if that time does not exceed endTime or
\* endTime is unset, and COMPLETED otherwise; its lock is cleared either way
RecurringSuccessReschedules ==
    [][\A w \in Workers : \A e \in execs[w] : \A x \in Results :
          (HandlerReturn(w, e, x) /\ jobs[e.job].jobType = "RECURRING") =>
             /\ IF \/ jobs[e.job].endTime = NullTime
                   \/ CalculateNextRun(jobs[e.job]) <= jobs[e.job].endTime
                THEN /\ jobs'[e.job].status = "SCHEDULED"
                     /\ jobs'[e.job].nextRunAt = CalculateNextRun(jobs[e.job])
                ELSE jobs'[e.job].status = "COMPLETED"
             /\ jobs'[e.job].lockedBy = Null
             /\ jobs'[e.job].lockedAt = NullTime]_vars


\* ------------------------------------------------------------- recurrence
\* C21: every nextRunAt that a successful run of a recurring job writes is
\* later than the nextRunAt it replaces and later than the completion that
\* produced it
NextRunAdvances ==
    cron.done # NullTime =>
       /\ cron.nextRunAt > cron.prev
       /\ cron.nextRunAt > cron.done


\* C22: the log entries of one job carry strictly increasing retryAttempt
\* numbers in the order of its attempts
AttemptNumbersIncrease ==
    \A i, k \in 1 .. Len(logs) :
       (i < k /\ logs[i].job = logs[k].job) =>
          logs[i].retryAttempt < logs[k].retryAttempt


\* ------------------------------------------------------------ concurrency
\* the jobs worker w has claimed and not finished: those its polls have
\* picked and those its executions hold
HeldBy(w) ==
    {e.job : e \in execs[w] \cup poll[w].picked \cup overlap[w].picked}

\* C23: a worker never has more than `concurrency` jobs claimed and in
\* flight, also when its polls overlap
WithinConcurrency == \A w \in Workers : Cardinality(HeldBy(w)) <= Concurrency

\* C24: stop() waits for the jobs in flight no longer than the drain
\* deadline: once the deadline has passed, a stop() that is still draining
\* can go on to release the held jobs and return, whether or not the
\* awaited handlers have finished
StopWaits(w) == wk[w].draining /\ \E e \in execs[w] : e.job \in wk[w].awaited

StopMeetsDeadline ==
    \A w \in Workers :
        StopWaits(w) /\ wk[w].drainAge >= DrainTimeout => DrainOver(w)

\* C25: once stop() has returned, no job is locked by the stopped worker:
\* what it held is released, and nothing it does afterwards takes a job
\* again
Stopped(w) == ~wk[w].dead /\ ~wk[w].isRunning /\ ~wk[w].draining

StoppedWorkerHoldsNothing ==
    \A w \in Workers : Stopped(w) => \A j \in JobIds : jobs[j].lockedBy # w

\* C26: a worker that is paused, or on which stop() has been called, claims
\* no new job: every step that gives a job to a worker is taken by a worker
\* that is running and not paused
ClaimedBy(w, j) ==
    /\ jobs[j].lockedBy # w
    /\ jobs'[j].lockedBy = w
    /\ jobs'[j].status = "QUEUED"

OnlyActiveWorkersClaim ==
    [][\A w \in Workers : \A j \in JobIds :
          ClaimedBy(w, j) => wk[w].isRunning /\ ~wk[w].isPaused]_vars

\* C27: at most one worker holds a lock unexpired; acquire returns true
\* only if the lock did not exist, had expired or was held by the caller;
\* release and renew by a worker that is not the holder change no lock
\* and return false
Holds(w, l) == lm.activeLocks[w][l] # NullTime /\ lm.activeLocks[w][l] >= 0

OneHolderPerLock ==
    \A l \in LockIds : \A w, v \in Workers : Holds(w, l) /\ Holds(v, l) => w = v

AcquireStep ==
    \A w \in Workers, l \in LockIds :
        Acquire(w, l) /\ lm'.ret.ok =>
            \/ lm.locks[l].holder = Null
            \/ lm.locks[l].left < 0
            \/ lm.locks[l].holder = w

NotHolderStep ==
    \A w \in Workers, l \in LockIds :
        (Release(w, l) \/ Renew(w, l)) /\ lm.locks[l].holder # w =>
            lm'.locks = lm.locks /\ ~lm'.ret.ok

LockIsExclusive == []OneHolderPerLock /\ [][AcquireStep /\ NotHolderStep]_vars

\* a worker was refused a lock that the other worker holds unexpired
AcquireRefused ==
    /\ lm.ret.op = "acquire"
    /\ ~lm.ret.ok
    /\ \E v \in Workers : v # lm.ret.by /\ Holds(v, lm.ret.lockId)

\* C28: withLock calls fn only with the lock acquired, and returns the
\* could-not-acquire failure otherwise; when it returns after fn, the lock
\* is no longer held by the caller, and the value returned is success
\* with fn's result or failure with the error fn threw
WithLockBeginStep ==
    \A w \in Workers, i \in 1 .. MaxCalls, l \in LockIds :
        WithLockBegin(w, i, l) =>
            IF lm'.calls[w][i].pc = "fn"
            THEN lm'.locks[l] = [holder |-> w, left |-> LockTTL]
            ELSE /\ lm.locks[l].holder \notin {w, Null}
                 /\ lm'.locks = lm.locks
                 /\ lm'.ret = Return(w, "withLock", l, FALSE, Null, CouldNotAcquire)

WithLockEndStep ==
    \A w \in Workers, i \in 1 .. MaxCalls :
        WithLockEnd(w, i) =>
            LET c == lm.calls[w][i]
            IN  /\ lm'.locks[c.lockId].holder # w
                /\ lm'.ret = IF c.out \in Results
                             THEN Return(w, "withLock", c.lockId, TRUE, c.out, Null)
                             ELSE Return(w, "withLock", c.lockId, FALSE, Null, c.out)

CancelledStaysCancelled ==
    [][\A j \in JobIds :
          /\ CancelJob(j) => jobs[j].status \in {"PENDING", "SCHEDULED", "QUEUED"}
          /\ jobs[j].status = "CANCELLED" /\ ~DeleteJob(j) =>
                 jobs'[j].status = "CANCELLED"]_vars

\* C30: in every reachable state a job that is RUNNING is locked by some
\* worker
RunningIsLocked ==
    \A j \in JobIds : jobs[j].status = "RUNNING" => jobs[j].lockedBy # Null

\* C31: in every reachable state a job that is COMPLETED, FAILED or
\* CANCELLED is locked by no worker
TerminalIsUnlocked ==
    \A j \in JobIds :
        jobs[j].status \in {"COMPLETED", "FAILED", "CANCELLED"} =>
            jobs[j].lockedBy = Null

\* C32: a job whose status is COMPLETED has its expireAt set, so that the
\* TTL index of the collection purges it
CompletedExpires ==
    \A j \in JobIds : jobs[j].status = "COMPLETED" => jobs[j].expireAt # NullTime

\* C33: the job a claim takes has the smallest priority number among the
\* jobs eligible at that moment and, among those of that priority, the
\* earliest nextRunAt
ClaimTakesFirst ==
    [][\A w \in Workers : \A j \in JobIds :
          PickOne(w, j) =>
             \A k \in JobIds :
                Eligible(k) =>
                   /\ jobs[j].priority <= jobs[k].priority
                   /\ jobs[j].priority = jobs[k].priority =>
                          jobs[j].nextRunAt <= jobs[k].nextRunAt]_vars

\* a job was claimed ahead of an eligible job that had been due for longer
\* but has a larger priority number
PriorityWon ==
    \E j, k \in JobIds :
        /\ jobs[j].status = "QUEUED"
        /\ Eligible(k)
        /\ jobs[j].priority < jobs[k].priority
        /\ jobs[k].nextRunAt < jobs[j].nextRunAt

\* C34: every classifyError returns the code of the first rule, in the
\* listed order, whose substring the message holds: timeout, network or
\* econnrefused, rate limit, memory, permission or forbidden, validation,
\* not found, handler; UNKNOWN_ERROR when none does
ListedRules ==
    << <<{"timeout"}, "TIMEOUT">>,
       <<{"network", "econnrefused"}, "NETWORK_ERROR">>,
       <<{"rate limit"}, "RATE_LIMIT">>,
       <<{"memory"}, "MEMORY_ERROR">>,
       <<{"permission", "forbidden"}, "PERMISSION_ERROR">>,
       <<{"validation"}, "VALIDATION_ERROR">>,
       <<{"not found"}, "NOT_FOUND">>,
       <<{"handler"}, "HANDLER_ERROR">> >>

ClassifyFollowsList ==
    calc.fn = "classifyError" => calc.code = FirstMatch(ListedRules, calc.msg)

\* C35: the delay before retry k is baseDelay (fixed), baseDelay * 2^k
\* (exponential), baseDelay * (k + 1) (linear) or baseDelay * fib(k + 1)
\* with fib(1) = fib(2) = 1 (fibonacci), capped by maxRetryDelay; with
\* jitter it is never negative
RECURSIVE Fib(_)
Fib(n) == IF n <= 2 THEN 1 ELSE Fib(n - 1) + Fib(n - 2)

ListedDelay(strategy, k, base) ==
    CASE strategy = "fixed" -> base
      [] strategy = "exponential" -> base * (2 ^ k)
      [] strategy = "linear" -> base * (k + 1)
      [] strategy = "fibonacci" -> base * Fib(k + 1)

DelayFollowsStrategy ==
    calc.fn = "calculateDelay" =>
        /\ calc.delay >= 0
        /\ calc.jitter = 0 =>
               calc.delay = Min(ListedDelay(calc.strategy, calc.k, calc.base), calc.max)

\* C36: no exception escapes an execution: whatever fails inside it, a
\* store write included, is caught and recorded by the executor, and no
\* job promise of a worker is left rejected
NothingEscapes == \A w \in Workers : ~ev[w].escaped

\* C37: when a store operation fails during a poll, the worker emits
\* 'error' to its listener, no job document is changed by the step, and the
\* worker stays running with no poll under way, so that the next tick polls
PollFailStep(w) == ev'[w].faults > ev[w].faults /\ poll'[w] # poll[w]

EndStep(w, j) == j \in activeJobs[w] /\ j \notin activeJobs'[w]

EventsMatchOutcome ==
    [][\A w \in Workers, j \in JobIds : EndStep(w, j) /\ ev[w].listening =>
          /\ ev'[w].job = j
          /\ ev'[w].last \in {"job:complete", "job:retry", "job:failed", "job:error"}
          /\ ev'[w].last = "job:complete" =>
                 jobs'[j].status \in {"COMPLETED", "SCHEDULED"} /\ jobs'[j].retryCount = 0
          /\ ev'[w].last = "job:retry" =>
                 jobs'[j].status = "SCHEDULED" /\ jobs'[j].retryCount > 0
          /\ ev'[w].last = "job:failed" => jobs'[j].status = "FAILED"
          /\ ev'[w].last = "job:error" => ev'[w].escaped /\ ~ev[w].escaped]_vars

\* C39: once a one-time job is COMPLETED, or any job is FAILED, no step of
\* any worker changes its status again
Terminal(d) ==
    \/ d.status = "FAILED"
    \/ d.status = "COMPLETED" /\ d.jobType = "ONE_TIME"

TerminalStatusIsFinal ==
    [][\A j \in JobIds : Terminal(jobs[j]) => jobs'[j].status = jobs[j].status]_vars

\* C40: every job a worker registers in activeJobs is eventually removed
\* from it, whatever the outcome of the execution, a store write that
\* throws included
SlotsAreFreed ==
    \A w \in Workers, j \in JobIds :
        (j \in activeJobs[w]) ~> (j \notin activeJobs[w])

\* the execution threw out of the executor and the worker has all its slots
SlotFreedAfterThrow ==
    \E w \in Workers :
        /\ ev[w].escaped
        /\ Concurrency - Cardinality(activeJobs[w]) = Concurrency

====
